---------------------------- MODULE Spec2Model ----------------------------
(***************************************************************************)
(* Model of the two job-digest pipelines of the repository:                *)
(*   job_scraper_emailer.py  ("emailer": Naukri, LinkedIn, Bing; detail    *)
(*                            page enrichment; city filter in main)        *)
(*   walkin_job_scraper.py   ("walkin": Naukri, Indeed, Google, LinkedIn,  *)
(*                            Shine; classification inside the scrapers)   *)
(* Text is a sequence of one-character strings, so that lower-casing,      *)
(* substring tests, concatenation, stripping and escaping are computed     *)
(* the way the Python code computes them.  Python's None and "" are both   *)
(* falsy in every place the code reads a link, a text or a field, and are  *)
(* both the empty sequence here.                                           *)
(***************************************************************************)
EXTENDS Integers, Sequences, FiniteSets, TLC

\* ------------------------------------------------------------------ text

UpperAlphabet == <<"A","B","C","D","E","F","G","H","I","J","K","L","M","N","O","P","Q","R","S","T","U","V","W","X","Y","Z">>
LowerAlphabet == <<"a","b","c","d","e","f","g","h","i","j","k","l","m","n","o","p","q","r","s","t","u","v","w","x","y","z">>
Digits == {"0","1","2","3","4","5","6","7","8","9"}
Letters == {UpperAlphabet[i] : i \in 1..26} \cup {LowerAlphabet[i] : i \in 1..26}
\* the characters str.strip() removes and the regex class \s matches
Whitespace == {" ", "\n", "\t"}
\* the characters the regex class \w matches (word characters, for \b)
WordChars == Letters \cup Digits \cup {"_"}

\* str.lower() on one character
LowerChar(c) ==
  IF \E i \in 1..26 : UpperAlphabet[i] = c
  THEN LowerAlphabet[CHOOSE i \in 1..26 : UpperAlphabet[i] = c]
  ELSE c

\* str.lower()
Lower(s) == [i \in 1..Len(s) |-> LowerChar(s[i])]

\* the Python test  sub in s
Contains(sub, s) ==
  \E i \in 0..(Len(s) - Len(sub)) : \A k \in 1..Len(sub) : s[i + k] = sub[k]

\* str.startswith
StartsWith(s, p) == Len(s) >= Len(p) /\ SubSeq(s, 1, Len(p)) = p

RECURSIVE LStrip(_)
LStrip(s) == IF s # <<>> /\ Head(s) \in Whitespace THEN LStrip(Tail(s)) ELSE s

RECURSIVE RStrip(_)
RStrip(s) ==
  IF s # <<>> /\ s[Len(s)] \in Whitespace THEN RStrip(SubSeq(s, 1, Len(s) - 1)) ELSE s

\* str.strip()
Strip(s) == RStrip(LStrip(s))

\* s[:n]
Take(s, n) == SubSeq(s, 1, IF Len(s) < n THEN Len(s) ELSE n)

\* s[-n:]
LastN(s, n) == IF Len(s) <= n THEN s ELSE SubSeq(s, Len(s) - n + 1, Len(s))

\* " ".join(parts)
RECURSIVE JoinSpace(_)
JoinSpace(parts) ==
  IF parts = <<>> THEN <<>>
  ELSE IF Len(parts) = 1 THEN parts[1]
  ELSE parts[1] \o <<" ">> \o JoinSpace(Tail(parts))

\* the elements of a sequence
Range(s) == {s[i] : i \in 1..Len(s)}

\* --------------------------------------------------- relevance classifier

WALKIN_TARGET_CITIES ==
  { <<"p","u","n","e">>, <<"p","i","m","p","r","i">>, <<"p","i","m","p","r","i"," ","c","h","i","n","c","h","w","a","d">>, <<"p","c","m","c">>, <<"h","a","d","a","p","s","a","r">>,
    <<"b","a","n","e","r">>, <<"w","a","k","a","d">>, <<"k","h","a","r","a","d","i">> }
ROLE_KEYWORDS ==
  { <<"e","c","o","m","m","e","r","c","e">>, <<"e","-","c","o","m","m","e","r","c","e">>, <<"a","m","a","z","o","n">>, <<"f","l","i","p","k","a","r","t">>, <<"m","a","r","k","e","t","p","l","a","c","e">>,
    <<"c","a","t","a","l","o","g">>, <<"l","i","s","t","i","n","g">>, <<"e"," ","c","o","m","m","e","r","c","e">> }
WALKIN_KEYWORDS ==
  { <<"w","a","l","k"," ","i","n">>, <<"w","a","l","k","-","i","n">>, <<"w","a","l","k","i","n">>, <<"w","a","l","k","i","n"," ","i","n","t","e","r","v","i","e","w">>,
    <<"w","a","l","k"," ","i","n"," ","i","n","t","e","r","v","i","e","w">>, <<"w","a","l","k","-","i","n"," ","d","r","i","v","e">> }
RECENT_MARKERS ==
  { <<"j","u","s","t"," ","p","o","s","t","e","d">>, <<"p","o","s","t","e","d"," ","t","o","d","a","y">>, <<"t","o","d","a","y">>, <<"1"," ","d","a","y"," ","a","g","o">>,
    <<"p","o","s","t","e","d"," ","1"," ","d","a","y"," ","a","g","o">>, <<"j","u","s","t"," ","n","o","w">> }
EMAILER_TARGET_CITIES ==
  { <<"p","u","n","e">>, <<"m","u","m","b","a","i">>, <<"n","a","v","i"," ","m","u","m","b","a","i">>, <<"t","h","a","n","e">>,
    <<"m","u","m","b","a","i"," ","m","e","t","r","o","p","o","l","i","t","a","n"," ","r","e","g","i","o","n">>, <<"b","a","n","g","a","l","o","r","e">>, <<"b","e","n","g","a","l","u","r","u">> }

\* walkin: text_has_city
text_has_city(text) ==
  LET t == Lower(text)
  IN  text # <<>> /\ \E city \in WALKIN_TARGET_CITIES : Contains(city, t)

\* walkin: text_matches_role_or_walkin
text_matches_role_or_walkin(text) ==
  LET t == Lower(text)
  IN  /\ text # <<>>
      /\ \/ \E k \in ROLE_KEYWORDS : Contains(k, t)
         \/ \E w \in WALKIN_KEYWORDS : Contains(w, t)

\* is_recent with the numeric rule "<N> hour(s) ago", N <= 24, next to the
\* markers (N read as the one or two digits before the unit)
is_recent_numeric(text) ==
  LET t == <<" ">> \o Lower(text)
      hours(n) == Contains(<<" ">> \o n \o <<" ","h","o","u","r","s"," ","a","g","o">>, t)
                  \/ Contains(<<" ">> \o n \o <<" ","h","o","u","r"," ","a","g","o">>, t)
  IN  /\ text # <<>>
      /\ \/ \E m \in RECENT_MARKERS : Contains(m, t)
         \/ \E d \in Digits : hours(<<d>>)
         \/ \E d \in {"0", "1"}, e \in Digits : hours(<<d, e>>)
         \/ \E e \in {"0", "1", "2", "3", "4"} : hours(<<"2", e>>)

\* walkin: is_recent
is_recent(text) ==
  LET t == Lower(text)
  IN  text # <<>> /\ \E m \in RECENT_MARKERS : Contains(m, t)

\* emailer: contains_target_city
contains_target_city(text) ==
  LET txt == Lower(text)
  IN  text # <<>> /\ \E city \in EMAILER_TARGET_CITIES : Contains(city, txt)

\* ------------------------------------------------------ contact extractor

\* the character classes of EMAIL_REGEX
EmailLocalChars == Letters \cup Digits \cup {".", "_", "%", "+", "-"}
EmailDomainChars == Letters \cup Digits \cup {".", "-"}

\* last index of the longest run of characters of class C that starts at i
\* (i - 1 when s[i] is not in C): what a greedy  [C]*  consumes from i
RunEnd(s, i, C) ==
  CHOOSE j \in (i - 1)..Len(s) :
    /\ \A k \in i..j : s[k] \in C
    /\ j = Len(s) \/ s[j + 1] \notin C

\* \b at position i: exactly one of s[i-1], s[i] is a word character
WordBoundary(s, i) ==
  LET before == i - 1 >= 1 /\ i - 1 <= Len(s) /\ s[i - 1] \in WordChars
      after == i >= 1 /\ i <= Len(s) /\ s[i] \in WordChars
  IN  before # after

\* EMAIL_REGEX matched at i: the index of the last character of the match,
\* 0 when there is none.  local+ is greedy and must be followed by "@";
\* domain+ is greedy and backtracks to the last "." followed by two letters.
EmailMatchEnd(s, i) ==
  LET a == RunEnd(s, i, EmailLocalChars)
      d0 == a + 2
      r == RunEnd(s, d0, EmailDomainChars)
      dots == {p \in (d0 + 1)..r :
                 /\ s[p] = "."
                 /\ p + 2 <= Len(s)
                 /\ s[p + 1] \in Letters /\ s[p + 2] \in Letters}
  IN  IF a < i \/ a + 1 > Len(s) \/ s[a + 1] # "@" \/ dots = {}
      THEN 0
      ELSE RunEnd(s, (CHOOSE p \in dots : \A q \in dots : q <= p) + 1, Letters)

\* [6-9]\d{9}\b matched at j: the index of the last character, 0 when none
PhoneCoreEnd(s, j) ==
  IF /\ j >= 1 /\ j + 9 <= Len(s)
     /\ s[j] \in {"6", "7", "8", "9"}
     /\ \A k \in (j + 1)..(j + 9) : s[k] \in Digits
     /\ WordBoundary(s, j + 10)
  THEN j + 9
  ELSE 0

\* PHONE_REGEX matched at i: the end of the match, 0 when none.  The optional
\* group (+91 and its optional separator) is tried first, as the regex
\* engine does, then nothing before the ten digits.
PhoneMatchEnd(s, i) ==
  LET plus == i + 2 <= Len(s) /\ SubSeq(s, i, i + 2) = <<"+","9","1">>
      sep == plus /\ i + 3 <= Len(s) /\ s[i + 3] \in ({"-"} \cup Whitespace)
  IN  IF ~WordBoundary(s, i) THEN 0
      ELSE IF sep /\ PhoneCoreEnd(s, i + 4) # 0 THEN PhoneCoreEnd(s, i + 4)
      ELSE IF plus /\ PhoneCoreEnd(s, i + 3) # 0 THEN PhoneCoreEnd(s, i + 3)
      ELSE PhoneCoreEnd(s, i)

\* re.findall(EMAIL_REGEX, s) scanning from i: the matches, left to right
RECURSIVE FindEmails(_, _)
FindEmails(s, i) ==
  IF i > Len(s) THEN <<>>
  ELSE LET e == EmailMatchEnd(s, i)
       IN  IF e = 0 THEN FindEmails(s, i + 1)
           ELSE <<SubSeq(s, i, e)>> \o FindEmails(s, e + 1)

\* re.findall(PHONE_REGEX, s) scanning from i
RECURSIVE FindPhones(_, _)
FindPhones(s, i) ==
  IF i > Len(s) THEN <<>>
  ELSE LET e == PhoneMatchEnd(s, i)
       IN  IF e = 0 THEN FindPhones(s, i + 1)
           ELSE <<SubSeq(s, i, e)>> \o FindPhones(s, e + 1)

\* list(set(xs)): the distinct elements.  Python leaves their order open and
\* nothing downstream reads it; the model keeps the order of first occurrence.
RECURSIVE Distinct(_)
Distinct(xs) ==
  IF xs = <<>> THEN <<>>
  ELSE LET rest == Distinct(SubSeq(xs, 1, Len(xs) - 1))
           x == xs[Len(xs)]
       IN  IF x \in Range(rest) THEN rest ELSE Append(rest, x)

\* re.sub(r"[^\d]", "", p)
OnlyDigits(p) == SelectSeq(p, LAMBDA c : c \in Digits)

\* the normalisation loop keeping a candidate of more than ten digits whole
RECURSIVE NormPhonesUncut(_)
NormPhonesUncut(ps) ==
  IF ps = <<>> THEN <<>>
  ELSE LET clean == OnlyDigits(Head(ps))
       IN  (IF Len(clean) >= 10 THEN <<clean>> ELSE <<>>) \o NormPhonesUncut(Tail(ps))

\* the phone normalisation loop of extract_contact / extract_contact_info
RECURSIVE NormPhones(_)
NormPhones(ps) ==
  IF ps = <<>> THEN <<>>
  ELSE LET clean == OnlyDigits(Head(ps))
           cut == IF Len(clean) > 10 THEN LastN(clean, 10) ELSE clean
       IN  (IF Len(cut) = 10 THEN <<cut>> ELSE <<>>) \o NormPhones(Tail(ps))

\* extract_contact (walkin) and extract_contact_info (emailer): emails, phones
extract_contact(text) ==
  IF text = <<>> THEN [emails |-> <<>>, phones |-> <<>>]
  ELSE [emails |-> Distinct(FindEmails(text, 1)),
        phones |-> NormPhones(Distinct(FindPhones(text, 1)))]

\* ---------------------------------------------------------- html escaping

\* html.escape(c, quote=True) on one character
EscapeChar(c) ==
  CASE c = "&" -> <<"&","a","m","p",";">>
    [] c = "<" -> <<"&","l","t",";">>
    [] c = ">" -> <<"&","g","t",";">>
    [] c = "\"" -> <<"&","q","u","o","t",";">>
    [] c = "'" -> <<"&","#","x","2","7",";">>
    [] OTHER -> <<c>>

\* html.escape(s) / html_escape(s): s or "" is s in this model
RECURSIVE html_escape(_)
html_escape(s) == IF s = <<>> THEN <<>> ELSE EscapeChar(Head(s)) \o html_escape(Tail(s))

\* ------------------------------------------------------------ dedup store

\* is_seen with a lookup that never finds the row
is_seen_blind(led, link) == FALSE

\* is_seen(conn, link): SELECT 1 FROM seen WHERE link = ?
is_seen(led, link) == link \in DOMAIN led

\* mark_seen that loses the insert
mark_seen_forgets(led, link, now) == led

\* mark_seen as INSERT OR REPLACE: an existing row gets the new first_seen
mark_seen_replaces(led, link, now) ==
  [k \in DOMAIN led \cup {link} |-> IF k = link THEN now ELSE led[k]]

\* mark_seen(conn, link): INSERT OR IGNORE INTO seen (link, first_seen)
\* VALUES (link, int(time.time())); now is the time the call reads
mark_seen(led, link, now) ==
  IF link \in DOMAIN led THEN led
  ELSE [k \in DOMAIN led \cup {link} |-> IF k = link THEN now ELSE led[k]]

\* the empty table CREATE TABLE IF NOT EXISTS leaves behind on a fresh file
EmptyLedger == [k \in {} |-> 0]

\* ------------------------------------------------------------------- jobs

\* MAX_RESULTS is read from the environment (default 10 in the emailer, 25 in
\* the walk-in scraper); the model runs both with MAX_RESULTS=2 configured
MAX_RESULTS == 2
\* the description budget of both digest builders, description[:600]
DESC_LIMIT == 600
\* enrich_job_with_details: all_text[:2000]
PAGE_TEXT_LIMIT == 2000

\* the ledger key falling back to the title alone
JobKeyTitleOnly(j) == IF j.link # <<>> THEN j.link ELSE j.title

\* link = j.get("link") or (j.get("title","") + j.get("company","")): the
\* ledger key both main functions compute
JobKey(j) == IF j.link # <<>> THEN j.link ELSE j.title \o j.company

NoPage == [ok |-> FALSE, cards |-> <<>>]
Page(cards) == [ok |-> TRUE, cards |-> cards]

\* ------------------------------------------------------- walkin scrapers

GOOGLE_URL == <<"h","t","t","p","s",":","/","/","w","w","w",".","g","o","o","g","l","e",".","c","o","m","/","s","e","a","r","c","h","?","q","=","W","a","l","k","-","i","n","+","E","-","c","o","m","m","e","r","c","e","+","j","o","b","s","+","P","u","n","e">>
INDEED_BASE == <<"h","t","t","p","s",":","/","/","i","n",".","i","n","d","e","e","d",".","c","o","m">>
SHINE_BASE == <<"h","t","t","p","s",":","/","/","w","w","w",".","s","h","i","n","e",".","c","o","m">>

WalkinSources == << <<"N","a","u","k","r","i">>, <<"I","n","d","e","e","d">>, <<"G","o","o","g","l","e">>, <<"L","i","n","k","e","d","I","n">>, <<"S","h","i","n","e">> >>

\* the link each scraper derives from the href of the card's first anchor
WalkinLink(source, href) ==
  CASE source = <<"I","n","d","e","e","d">> ->
         IF href # <<>> /\ StartsWith(href, <<"/">>) THEN INDEED_BASE \o href ELSE href
    [] source = <<"S","h","i","n","e">> -> IF href # <<>> THEN SHINE_BASE \o href ELSE <<>>
    [] source = <<"G","o","o","g","l","e">> -> GOOGLE_URL
    [] OTHER -> href

\* the three predicates a scraper applies to a card's text before it builds
\* a job: scrape_linkedin applies no freshness test
WalkinAccepts(source, text) ==
  /\ source = <<"L","i","n","k","e","d","I","n">> \/ is_recent(text)
  /\ text_has_city(text)
  /\ text_matches_role_or_walkin(text)

\* the job dict a scraper appends for an accepted card
WalkinJob(source, card) ==
  LET contact == extract_contact(card.text)
  IN  [title |-> IF source = <<"G","o","o","g","l","e">> THEN <<"G","o","o","g","l","e"," ","s","n","i","p","p","e","t">> ELSE card.title,
       company |-> IF source = <<"G","o","o","g","l","e">> THEN <<>> ELSE card.company,
       location |-> <<"P","u","n","e">>,
       description |-> card.text,
       link |-> WalkinLink(source, card.href),
       source |-> source,
       emails |-> contact.emails,
       phones |-> contact.phones]

RECURSIVE WalkinCards(_, _)
WalkinCards(source, cards) ==
  IF cards = <<>> THEN <<>>
  ELSE (IF WalkinAccepts(source, Head(cards).text)
        THEN <<WalkinJob(source, Head(cards))>> ELSE <<>>)
       \o WalkinCards(source, Tail(cards))

\* scrape_naukri / scrape_indeed / scrape_google / scrape_linkedin /
\* scrape_shine on the outcome of fetch(): no page, no jobs; else the accepted
\* cards, jobs[:MAX_RESULTS]
scrape(source, page) ==
  IF ~page.ok THEN <<>> ELSE Take(WalkinCards(source, page.cards), MAX_RESULTS)

\* dedupe_jobs with its seen_links set
RECURSIVE DedupeFrom(_, _)
DedupeFrom(jobs, seen_links) ==
  IF jobs = <<>> THEN <<>>
  ELSE LET j == Head(jobs)
           link == JobKey(j)
           key == Strip(link)
       IN  IF link = <<>> \/ key \in seen_links
           THEN DedupeFrom(Tail(jobs), seen_links)
           ELSE <<j>> \o DedupeFrom(Tail(jobs), seen_links \cup {key})

dedupe_jobs(jobs) == DedupeFrom(jobs, {})

\* ----------------------------------------------------- emailer extraction

EmailerSources == << <<"N","a","u","k","r","i">>, <<"L","i","n","k","e","d","I","n">>, <<"W","e","b","/","B","i","n","g">> >>

\* fetch_page_content: Playwright first, requests when it brought nothing
fetch_page_content(pw, rq) == IF pw.ok THEN pw ELSE rq

\* extract_from_naukri / extract_from_linkedin / extract_from_bing on the
\* fields the selectors found in each card, cards[:MAX_RESULTS * 2]; emails and
\* phones are the defaults main sets (setdefault) for a job enrichment skipped
EmailerExtract(source, page) ==
  IF ~page.ok THEN <<>>
  ELSE LET cards == Take(page.cards, MAX_RESULTS * 2)
       IN  [i \in 1..Len(cards) |->
             [title |-> cards[i].title,
              company |-> IF source = <<"W","e","b","/","B","i","n","g">> THEN <<>> ELSE cards[i].company,
              location |-> IF source = <<"W","e","b","/","B","i","n","g">> THEN <<>> ELSE cards[i].location,
              description |-> IF source = <<"L","i","n","k","e","d","I","n">> THEN <<>> ELSE cards[i].text,
              link |-> cards[i].href,
              source |-> source,
              emails |-> <<>>,
              phones |-> <<>>]]

\* enrich_job_with_details on the outcome of the detail-page fetch: detail.sel
\* is the text of the first description selector that matched ("" when none),
\* detail.text the text of the whole page
enrich_job_with_details(job, detail) ==
  IF job.link = <<>> \/ ~detail.ok THEN job
  ELSE LET full_text == IF detail.sel # <<>> THEN detail.sel
                        ELSE Take(detail.text, PAGE_TEXT_LIMIT)
           description == job.description \o <<"\n", "\n">> \o full_text
           combined == job.title \o <<" ">> \o job.location \o <<" ">>
                       \o description \o <<" ">> \o detail.text
           contact == extract_contact(combined)
       IN  [job EXCEPT !.description = description,
                       !.emails = contact.emails,
                       !.phones = contact.phones]

\* the text main tests against the target cities
EmailerCombined(job) == JoinSpace(<<job.title, job.location, job.description>>)

\* ---------------------------------------------------------- digest builder

Markup(name) == [kind |-> "markup", field |-> name, out |-> <<>>]
\* a value written into the markup: field names where it came from, out is
\* the text as it appears in the payload
Field(name, out) == [kind |-> "field", field |-> name, out |-> out]

RECURSIVE EscapedList(_, _)
EscapedList(name, xs) ==
  IF xs = <<>> THEN <<>>
  ELSE <<Field(name, html_escape(Head(xs)))>> \o EscapedList(name, Tail(xs))

\* walkin build_email_html: the block of one job
WalkinBlock(j) ==
  <<Markup("div"), Field("title", html_escape(j.title))>>
  \o (IF j.company # <<>> THEN <<Field("company", html_escape(j.company))>> ELSE <<>>)
  \o <<Field("source", html_escape(j.source))>>
  \o (IF j.location # <<>> THEN <<Field("location", html_escape(j.location))>> ELSE <<>>)
  \o <<Field("description", html_escape(Take(j.description, DESC_LIMIT)))>>
  \o (IF j.link # <<>> THEN <<Field("link", j.link)>> ELSE <<>>)
  \o EscapedList("emails", j.emails)
  \o EscapedList("phones", j.phones)
  \o <<Markup("/div")>>

\* emailer build_email_html: the block of one job
EmailerBlock(j) ==
  <<Markup("div"), Field("title", html_escape(j.title))>>
  \o (IF j.company # <<>> THEN <<Field("company", html_escape(j.company))>> ELSE <<>>)
  \o (IF j.location # <<>> THEN <<Field("location", html_escape(j.location))>> ELSE <<>>)
  \o <<Field("description", html_escape(Take(j.description, DESC_LIMIT)))>>
  \o (IF j.link # <<>> THEN <<Field("link", j.link), Field("link", j.link)>> ELSE <<>>)
  \o EscapedList("emails", j.emails)
  \o EscapedList("phones", j.phones)
  \o <<Field("source", j.source), Markup("/div")>>

RECURSIVE Blocks(_, _)
Blocks(program, jobs) ==
  IF jobs = <<>> THEN <<>>
  ELSE (IF program = "walkin" THEN WalkinBlock(Head(jobs)) ELSE EmailerBlock(Head(jobs)))
       \o Blocks(program, Tail(jobs))

\* build_email_html leaving the body without a statement when no job is new
build_email_html_blank(program, jobs) ==
  IF jobs = <<>> THEN <<>> ELSE <<Markup("h2")>> \o Blocks(program, jobs)

\* build_email_html of either program: the payload as the sequence of its
\* pieces, the fixed markup by name and every embedded value as emitted
build_email_html(program, jobs) ==
  IF program = "walkin"
  THEN <<Markup("h2")>>
       \o (IF jobs = <<>> THEN <<Markup("no_new_jobs")>>
           ELSE <<Markup("total")>> \o Blocks(program, jobs))
  ELSE <<Markup("h2"), Markup("date"), Markup("summary")>>
       \o [i \in 1..Len(Distinct([n \in 1..Len(jobs) |-> jobs[n].source])) |->
            Field("source", Distinct([n \in 1..Len(jobs) |-> jobs[n].source])[i])]
       \o (IF jobs = <<>> THEN <<Markup("no_new_jobs")>> ELSE Blocks(program, jobs))

\* ---------------------------------------------------- what the sites serve

\* card texts: one that passes the three walk-in predicates, a second posting
\* that passes and carries contact details, and one failing each predicate
TxtFresh == <<"W","a","l","k","-","i","n"," ","P","u","n","e"," ","t","o","d","a","y">>
TxtFresh2 == <<"E","c","o","m","m","e","r","c","e"," ","P","C","M","C"," ","j","u","s","t"," ","n","o","w"," ","h","r","@","x",".","i","n"," ","9","8","7","6","5","4","3","2","1","0">>
TxtStale == <<"W","a","l","k","-","i","n"," ","P","u","n","e"," ","3"," ","d","a","y","s"," ","a","g","o">>
TxtNoCity == <<"W","a","l","k","-","i","n"," ","D","e","l","h","i"," ","t","o","d","a","y">>
TxtNoRole == <<"D","r","i","v","e","r"," ","P","u","n","e"," ","t","o","d","a","y">>

WCard(href, title, company, text) ==
  [href |-> href, title |-> title, company |-> company, text |-> text]

\* the pages fetch() can return to each walk-in scraper, besides no page
WalkinPages(source) ==
  CASE source = <<"N","a","u","k","r","i">> ->
         { Page(<<WCard(<<"j">>, <<"T">>, <<"C">>, TxtStale), WCard(<<"k">>, <<"T">>, <<"C">>, TxtNoCity),
                  WCard(<<"k">>, <<"T">>, <<"C">>, TxtNoRole)>>),
           Page(<<WCard(<<"j">>, <<"T">>, <<"C">>, TxtFresh)>>),
           Page(<<WCard(<<"j">>, <<"T">>, <<"C">>, TxtFresh), WCard(<<"j"," ">>, <<"T">>, <<"C">>, TxtFresh2),
                  WCard(<<>>, <<"T">>, <<"C">>, TxtFresh)>>),
           Page(<<WCard(<<>>, <<>>, <<>>, TxtFresh), WCard(<<>>, <<>>, <<>>, TxtFresh2)>>) }
    [] source = <<"I","n","d","e","e","d">> ->
         { Page(<<WCard(<<"/","j">>, <<"T">>, <<"C">>, TxtFresh), WCard(<<"j"," ">>, <<"T">>, <<"C">>, TxtFresh)>>) }
    [] source = <<"G","o","o","g","l","e">> ->
         { Page(<<WCard(<<>>, <<>>, <<>>, TxtFresh), WCard(<<>>, <<>>, <<>>, TxtFresh2)>>) }
    [] source = <<"L","i","n","k","e","d","I","n">> ->
         { Page(<<WCard(<<"j">>, <<"T">>, <<"C">>, TxtStale)>>) }
    [] source = <<"S","h","i","n","e">> ->
         { Page(<<WCard(<<>>, <<"T">>, <<"C">>, TxtFresh)>>) }

ECard(href, title, company, location, text) ==
  [href |-> href, title |-> title, company |-> company, location |-> location,
   text |-> text]

\* the search pages the emailer can be served, besides no page
EmailerPages(source) ==
  CASE source = <<"N","a","u","k","r","i">> ->
         { Page(<<ECard(<<"j">>, <<"T">>, <<"C">>, <<"P","u","n","e">>, <<>>)>>),
           Page(<<ECard(<<"j">>, <<"T">>, <<"C">>, <<"P","u","n","e">>, <<>>),
                  ECard(<<>>, <<>>, <<>>, <<"M","u","m","b","a","i">>, <<>>),
                  ECard(<<>>, <<>>, <<>>, <<"T","h","a","n","e">>, <<>>),
                  ECard(<<>>, <<"T">>, <<"C">>, <<"D","e","l","h","i">>, <<>>),
                  ECard(<<"m">>, <<"T">>, <<"C">>, <<"P","u","n","e">>, <<>>)>>) }
    [] source = <<"L","i","n","k","e","d","I","n">> ->
         { Page(<<ECard(<<"j">>, <<"U">>, <<>>, <<"I","n","d","i","a">>, <<>>)>>) }
    [] source = <<"W","e","b","/","B","i","n","g">> ->
         { Page(<<ECard(<<"k">>, <<"B">>, <<>>, <<>>, <<"j","o","b","s"," ","i","n"," ","D","e","l","h","i">>)>>) }

NoDetail == [ok |-> FALSE, sel |-> <<>>, text |-> <<>>]
\* the detail pages a job link can be served, besides no page
DetailPages ==
  { [ok |-> TRUE, sel |-> <<>>, text |-> <<"O","f","f","i","c","e"," ","P","u","n","e"," ","h","r","@","x",".","i","n">>] }

\* ------------------------------------------------------------------ state

\* the saturation point of the history counters
MaxCount == 2

VARIABLES
  prog,       \* which script the runs execute: "emailer" or "walkin"
  pc,         \* position of the current run
  env,        \* which of EMAIL_USER, EMAIL_PASS, RECIPIENT_EMAIL are set
  dbExists,   \* seen_jobs.db holds the table seen
  ledger,     \* the table seen: link -> first_seen
  clock,      \* int(time.time())
  pages,      \* the outcomes of the page fetches so far, one per source
  src,        \* index of the next source to fetch
  all_jobs,   \* main's all_jobs (the emailer enriches them in place)
  idx,        \* index of the next job of the running loop
  deduped,    \* walkin: dedupe_jobs(all_jobs)
  new_jobs,   \* walkin new_jobs / emailer filtered: the jobs of the digest
  payload,    \* html_body
  sendTries,  \* calls of send_email in this run
  sendOk,     \* send_email returned without raising
  fetched,    \* history: a page fetch was issued in this run
  ledger0,    \* history: the ledger when the run was launched
  built,      \* history: link -> times it was put into a digest
  delivered,  \* history: link -> times it was in a digest that was sent
  probe       \* the last direct call of a function: [op, arg, res]

vars == <<prog, pc, env, dbExists, ledger, clock, pages, src, all_jobs, idx,
          deduped, new_jobs, payload, sendTries, sendOk, fetched, ledger0,
          built, delivered, probe>>

runVars == <<pages, src, all_jobs, idx, deduped, new_jobs, payload, sendTries,
             sendOk, fetched>>

Count(f, k) == IF k \in DOMAIN f THEN f[k] ELSE 0

Inc(f, k) ==
  [x \in DOMAIN f \cup {k} |->
     IF x = k THEN (IF Count(f, k) < MaxCount THEN Count(f, k) + 1 ELSE MaxCount)
     ELSE f[x]]

RECURSIVE IncAll(_, _)
IncAll(f, jobs) == IF jobs = <<>> THEN f ELSE IncAll(Inc(f, JobKey(Head(jobs))), Tail(jobs))

NoProbe == [op |-> "none"]

Init ==
  /\ prog \in {"emailer", "walkin"}
  /\ pc = "idle"
  /\ env = [user |-> TRUE, pass |-> TRUE, rcpt |-> TRUE]
  /\ dbExists = FALSE
  /\ ledger = EmptyLedger
  /\ clock = 0
  /\ pages = <<>> /\ src = 1 /\ all_jobs = <<>> /\ idx = 1 /\ deduped = <<>>
  /\ new_jobs = <<>> /\ payload = <<>> /\ sendTries = 0 /\ sendOk = FALSE
  /\ fetched = FALSE
  /\ ledger0 = EmptyLedger
  /\ built = EmptyLedger
  /\ delivered = EmptyLedger
  /\ probe = NoProbe

\* ------------------------------------------------------------ the run

\* the combined relevance predicate a job of the digest has passed: the city
\* test of the emailer's main, the card tests of the walk-in scraper
Relevant(program, job) ==
  IF program = "emailer" THEN contains_target_city(EmailerCombined(job))
  ELSE WalkinAccepts(job.source, job.description)

\* the ledger key of the job a walk-in scraper builds from a card
WalkinCardKey(source, card) ==
  JobKey([link |-> WalkinLink(source, card.href),
          title |-> IF source = <<"G","o","o","g","l","e">> THEN <<"G","o","o","g","l","e"," ","s","n","i","p","p","e","t">> ELSE card.title,
          company |-> IF source = <<"G","o","o","g","l","e">> THEN <<>> ELSE card.company])

\* the ledger keys of the cards the walk-in scrapers were served and turned down
WalkinTurnedDown ==
  UNION { { WalkinCardKey(WalkinSources[n], pages[n].cards[i]) :
              i \in { c \in 1..Len(pages[n].cards) :
                        ~WalkinAccepts(WalkinSources[n], pages[n].cards[c].text) } } :
          n \in 1..Len(pages) }

\* the links of the jobs this run classified as irrelevant
RejectedKeys ==
  IF prog = "emailer"
  THEN { JobKey(all_jobs[i]) :
           i \in { n \in 1..Len(all_jobs) : ~Relevant("emailer", all_jobs[n]) } }
  ELSE WalkinTurnedDown

\* the configuration check forgetting the recipient
ConfigOkNoRecipient(e) == e.user /\ e.pass

\* the module-level configuration check
ConfigOk(e) == e.user /\ e.pass /\ e.rcpt

\* python <script>: the interpreter executes the module top to bottom; with a
\* credential missing the import raises SystemExit before main is called
Launch ==
  /\ pc \in {"idle", "done", "aborted"}
  /\ \E e \in [user : BOOLEAN, pass : BOOLEAN, rcpt : BOOLEAN] :
       /\ env' = e
       /\ pc' = IF ConfigOk(e) THEN "init" ELSE "aborted"
  /\ pages' = <<>> /\ src' = 1 /\ all_jobs' = <<>> /\ idx' = 1 /\ deduped' = <<>>
  /\ new_jobs' = <<>> /\ payload' = <<>> /\ sendTries' = 0 /\ sendOk' = FALSE
  /\ fetched' = FALSE
  /\ ledger0' = ledger
  /\ UNCHANGED <<prog, dbExists, ledger, clock, built, delivered, probe>>

\* conn = init_db()
InitDb ==
  /\ pc = "init"
  /\ dbExists' = TRUE
  /\ pc' = IF prog = "emailer" THEN "fetch" ELSE "scrape"
  /\ UNCHANGED <<prog, env, ledger, clock, runVars, ledger0, built, delivered, probe>>

\* emailer main: one turn of  for u in urls: pages[u] = fetch_page_content(u)
EFetch ==
  /\ pc = "fetch"
  /\ \E pw \in {NoPage} \cup EmailerPages(EmailerSources[src]),
        rq \in {NoPage} \cup EmailerPages(EmailerSources[src]) :
       pages' = Append(pages, fetch_page_content(pw, rq))
  /\ fetched' = TRUE
  /\ src' = src + 1
  /\ pc' = IF src = Len(EmailerSources) THEN "extract" ELSE "fetch"
  /\ UNCHANGED <<prog, env, dbExists, ledger, clock, all_jobs, idx, deduped, new_jobs,
                 payload, sendTries, sendOk, ledger0, built, delivered, probe>>

\* emailer main: all_jobs += extract_from_...(pages[...]) for the three sources
EExtract ==
  /\ pc = "extract"
  /\ all_jobs' = EmailerExtract(EmailerSources[1], pages[1])
                 \o EmailerExtract(EmailerSources[2], pages[2])
                 \o EmailerExtract(EmailerSources[3], pages[3])
  /\ idx' = 1
  /\ pc' = "enrich"
  /\ UNCHANGED <<prog, env, dbExists, ledger, clock, pages, src, deduped, new_jobs,
                 payload, sendTries, sendOk, fetched, ledger0, built, delivered, probe>>

\* emailer main: one turn of the enrichment loop (the detail page is fetched
\* only for a job with a link); past the last job the loop ends
EEnrich ==
  /\ pc = "enrich"
  /\ IF idx > Len(all_jobs)
     THEN /\ pc' = "filter" /\ idx' = 1
          /\ UNCHANGED <<all_jobs, fetched>>
     ELSE /\ IF all_jobs[idx].link # <<>>
             THEN \E pw \in {NoDetail} \cup DetailPages, rq \in {NoDetail} \cup DetailPages :
                    /\ all_jobs' = [all_jobs EXCEPT ![idx] =
                                      enrich_job_with_details(@, fetch_page_content(pw, rq))]
                    /\ fetched' = TRUE
             ELSE UNCHANGED <<all_jobs, fetched>>
          /\ idx' = idx + 1
          /\ pc' = "enrich"
  /\ UNCHANGED <<prog, env, dbExists, ledger, clock, pages, src, deduped, new_jobs,
                 payload, sendTries, sendOk, ledger0, built, delivered, probe>>

\* the ledger step both main functions share: keep the job and record its
\* link when the link is not in the ledger
KeepIfNew(job) ==
  LET link == JobKey(job)
  IN  IF ~is_seen(ledger, link)
      THEN /\ new_jobs' = Append(new_jobs, job)
           /\ ledger' = mark_seen(ledger, link, clock)
           /\ built' = Inc(built, link)
      ELSE UNCHANGED <<new_jobs, ledger, built>>

\* the jobs the scrapers return for the pages they were served
RECURSIVE ServedFrom(_)
ServedFrom(n) ==
  IF n > Len(pages) THEN <<>>
  ELSE (IF prog = "emailer" THEN EmailerExtract(EmailerSources[n], pages[n])
        ELSE scrape(WalkinSources[n], pages[n]))
       \o ServedFrom(n + 1)

\* the filter loop testing the city on the job as extracted from the search
\* page, without the text enrichment added
EFilterOnCardText ==
  /\ pc = "filter" /\ prog = "emailer"
  /\ IF idx > Len(all_jobs)
     THEN /\ pc' = "build"
          /\ UNCHANGED <<idx, new_jobs, ledger, built>>
     ELSE /\ IF contains_target_city(EmailerCombined(ServedFrom(1)[idx]))
             THEN KeepIfNew(all_jobs[idx])
             ELSE UNCHANGED <<new_jobs, ledger, built>>
          /\ idx' = idx + 1
          /\ pc' = "filter"
  /\ UNCHANGED <<prog, env, dbExists, clock, pages, src, all_jobs, deduped, payload,
                 sendTries, sendOk, fetched, ledger0, delivered, probe>>

\* the filter loop recording the link before it tests the city
EFilterMarksFirst ==
  /\ pc = "filter" /\ prog = "emailer"
  /\ IF idx > Len(all_jobs)
     THEN /\ pc' = "build"
          /\ UNCHANGED <<idx, new_jobs, ledger, built>>
     ELSE /\ ledger' = mark_seen(ledger, JobKey(all_jobs[idx]), clock)
          /\ IF contains_target_city(EmailerCombined(all_jobs[idx]))
                /\ ~is_seen(ledger, JobKey(all_jobs[idx]))
             THEN /\ new_jobs' = Append(new_jobs, all_jobs[idx])
                  /\ built' = Inc(built, JobKey(all_jobs[idx]))
             ELSE UNCHANGED <<new_jobs, built>>
          /\ idx' = idx + 1
          /\ pc' = "filter"
  /\ UNCHANGED <<prog, env, dbExists, clock, pages, src, all_jobs, deduped, payload,
                 sendTries, sendOk, fetched, ledger0, delivered, probe>>

\* emailer main: one turn of the filter loop over the enriched jobs
EFilter ==
  /\ pc = "filter" /\ prog = "emailer"
  /\ IF idx > Len(all_jobs)
     THEN /\ pc' = "build"
          /\ UNCHANGED <<idx, new_jobs, ledger, built>>
     ELSE /\ IF contains_target_city(EmailerCombined(all_jobs[idx]))
             THEN KeepIfNew(all_jobs[idx])
             ELSE UNCHANGED <<new_jobs, ledger, built>>
          /\ idx' = idx + 1
          /\ pc' = "filter"
  /\ UNCHANGED <<prog, env, dbExists, clock, pages, src, all_jobs, deduped, payload,
                 sendTries, sendOk, fetched, ledger0, delivered, probe>>

\* the scrape step with a failed fetch discarding what earlier sources gave
WScrapeDropsOnFailure ==
  /\ pc = "scrape"
  /\ \E page \in {NoPage} \cup WalkinPages(WalkinSources[src]) :
       /\ all_jobs' = IF page.ok THEN all_jobs \o scrape(WalkinSources[src], page) ELSE <<>>
       /\ pages' = Append(pages, page)
  /\ fetched' = TRUE
  /\ src' = src + 1
  /\ pc' = IF src = Len(WalkinSources) THEN "dedupe" ELSE "scrape"
  /\ UNCHANGED <<prog, env, dbExists, ledger, clock, idx, deduped, new_jobs,
                 payload, sendTries, sendOk, ledger0, built, delivered, probe>>

\* walkin main: all_jobs.extend(scrape_...()) for the next of the five sources
WScrape ==
  /\ pc = "scrape"
  /\ \E page \in {NoPage} \cup WalkinPages(WalkinSources[src]) :
       /\ all_jobs' = all_jobs \o scrape(WalkinSources[src], page)
       /\ pages' = Append(pages, page)
  /\ fetched' = TRUE
  /\ src' = src + 1
  /\ pc' = IF src = Len(WalkinSources) THEN "dedupe" ELSE "scrape"
  /\ UNCHANGED <<prog, env, dbExists, ledger, clock, idx, deduped, new_jobs,
                 payload, sendTries, sendOk, ledger0, built, delivered, probe>>

\* walkin main: deduped = dedupe_jobs(all_jobs)
WDedupe ==
  /\ pc = "dedupe"
  /\ deduped' = dedupe_jobs(all_jobs)
  /\ idx' = 1
  /\ pc' = "filter"
  /\ UNCHANGED <<prog, env, dbExists, ledger, clock, pages, src, all_jobs, new_jobs,
                 payload, sendTries, sendOk, fetched, ledger0, built, delivered, probe>>

\* walkin main: one turn of  for j in deduped  (a job with an empty link and
\* empty title + company is skipped)
WFilter ==
  /\ pc = "filter" /\ prog = "walkin"
  /\ IF idx > Len(deduped)
     THEN /\ pc' = "build"
          /\ UNCHANGED <<idx, new_jobs, ledger, built>>
     ELSE /\ IF JobKey(deduped[idx]) # <<>>
             THEN KeepIfNew(deduped[idx])
             ELSE UNCHANGED <<new_jobs, ledger, built>>
          /\ idx' = idx + 1
          /\ pc' = "filter"
  /\ UNCHANGED <<prog, env, dbExists, clock, pages, src, all_jobs, deduped, payload,
                 sendTries, sendOk, fetched, ledger0, delivered, probe>>

\* html_body = build_email_html(...)
Build ==
  /\ pc = "build"
  /\ payload' = build_email_html(prog, new_jobs)
  /\ pc' = "send"
  /\ UNCHANGED <<prog, env, dbExists, ledger, clock, pages, src, all_jobs, idx, deduped,
                 new_jobs, sendTries, sendOk, fetched, ledger0, built, delivered, probe>>

\* the send step undoing the run's ledger entries when the send fails
SendRollsBack ==
  /\ pc = "send"
  /\ \E ok \in BOOLEAN :
       /\ sendOk' = ok
       /\ delivered' = IF ok THEN IncAll(delivered, new_jobs) ELSE delivered
       /\ ledger' = IF ok THEN ledger ELSE ledger0
  /\ sendTries' = sendTries + 1
  /\ pc' = "done"
  /\ UNCHANGED <<prog, env, dbExists, clock, pages, src, all_jobs, idx, deduped,
                 new_jobs, payload, fetched, ledger0, built, probe>>

\* try: send_email(subject, html_body)  except Exception: print(...)
Send ==
  /\ pc = "send"
  /\ \E ok \in BOOLEAN :
       /\ sendOk' = ok
       /\ delivered' = IF ok THEN IncAll(delivered, new_jobs) ELSE delivered
  /\ sendTries' = sendTries + 1
  /\ pc' = "done"
  /\ UNCHANGED <<prog, env, dbExists, ledger, clock, pages, src, all_jobs, idx, deduped,
                 new_jobs, payload, fetched, ledger0, built, probe>>

Next ==
  \/ Launch
  \/ InitDb
  \/ EFetch
  \/ EExtract
  \/ EEnrich
  \/ EFilter
  \/ WScrape
  \/ WDedupe
  \/ WFilter
  \/ Build
  \/ Send

Spec == Init /\ [][Next]_vars

\* a launched run executes its next statement: the steps of main are those of
\* one sequential process, every fetch and the send are bounded by a timeout
RunStep ==
  InitDb \/ EFetch \/ EExtract \/ EEnrich \/ EFilter \/ WScrape \/ WDedupe \/ WFilter
  \/ Build \/ Send

FairSpec == Spec /\ WF_vars(RunStep)

\* the jobs main's ledger loop iterates over
Candidates == IF prog = "emailer" THEN all_jobs ELSE dedupe_jobs(all_jobs)

\* the ledger loop of either main as a function: the jobs it would keep from
\* jobs, in order, when it starts with the ledger led
RECURSIVE LedgerLoop(_, _, _)
LedgerLoop(program, jobs, led) ==
  IF jobs = <<>> THEN <<>>
  ELSE LET j == Head(jobs)
           link == JobKey(j)
           examined == IF program = "emailer"
                       THEN contains_target_city(EmailerCombined(j))
                       ELSE link # <<>>
       IN  IF examined /\ ~is_seen(led, link)
           THEN <<j>> \o LedgerLoop(program, Tail(jobs), mark_seen(led, link, 0))
           ELSE LedgerLoop(program, Tail(jobs), led)

\* ----------------------------------------- the dedup store called directly

\* the largest value of the clock
MaxClock == 2

\* the links the store is called with: a link, the same link with a trailing
\* blank, the empty composite key, a composite key
StoreKeys == { <<"j">>, <<"j"," ">>, <<>>, <<"T","C">> }

\* a second passes
Tick ==
  /\ clock < MaxClock
  /\ clock' = clock + 1
  /\ UNCHANGED <<prog, pc, env, dbExists, ledger, runVars, ledger0, built, delivered, probe>>

\* init_db()
InitDbCall ==
  /\ pc = "idle"
  /\ dbExists' = TRUE
  /\ probe' = [op |-> "init_db"]
  /\ UNCHANGED <<prog, pc, env, ledger, clock, runVars, ledger0, built, delivered>>

\* is_seen(conn, link) on an open connection
IsSeenCall ==
  /\ pc = "idle" /\ dbExists
  /\ \E k \in StoreKeys :
       probe' = [op |-> "is_seen", arg |-> k, res |-> is_seen(ledger, k)]
  /\ UNCHANGED <<prog, pc, env, dbExists, ledger, clock, runVars, ledger0, built, delivered>>

\* mark_seen(conn, link) on an open connection
MarkSeenCall ==
  /\ pc = "idle" /\ dbExists
  /\ \E k \in StoreKeys :
       /\ ledger' = mark_seen(ledger, k, clock)
       /\ probe' = [op |-> "mark_seen", arg |-> k, res |-> is_seen(ledger, k)]
  /\ UNCHANGED <<prog, pc, env, dbExists, clock, runVars, ledger0, built, delivered>>

NextStore ==
  \/ Tick
  \/ InitDbCall
  \/ IsSeenCall
  \/ MarkSeenCall

SpecStore == Init /\ [][NextStore]_vars

\* --------------------------------------- the pure functions called directly
\* One call per behaviour: a pure function's result depends on its argument
\* alone, so the calls are made from the initial state.

\* the longest text, in words, is_recent is called with
MaxWords == 3

TextWords ==
  { <<"5">>, <<"4","8">>, <<"1">>, <<"1","1">>, <<"h","o","u","r","s">>, <<"d","a","y">>, <<"a","g","o">>, <<"Y","e","s","t","e","r","d","a","y">>,
    <<"p","o","s","t","e","d">>, <<"t","o","d","a","y">>, <<"T","o","d","a","y">>, <<"J","U","S","T">>, <<"n","o","w">> }

\* the texts of at most n words, the words joined by one blank
RECURSIVE TextsUpTo(_)
TextsUpTo(n) ==
  IF n = 0 THEN {<<>>}
  ELSE LET shorter == TextsUpTo(n - 1)
       IN  shorter \cup {JoinSpace(<<w, t>>) : w \in TextWords, t \in shorter \ {<<>>}}
                   \cup TextWords

\* is_recent(text)
IsRecentCall ==
  /\ probe = NoProbe
  /\ \E t \in TextsUpTo(MaxWords) :
       probe' = [op |-> "is_recent", arg |-> t, res |-> is_recent(t)]
  /\ UNCHANGED <<prog, pc, env, dbExists, ledger, clock, runVars, ledger0, built, delivered>>

\* scraped values: a plain one and one made of the characters of markup
Plain == <<"a">>
Hostile == <<"<","'","&","\\","\"",">">>

\* the jobs build_email_html is called with: every field plain, hostile or,
\* where the builder tests for it, empty
BuilderJobs ==
  [title : {Plain, Hostile},
   company : {<<>>, Hostile},
   location : {<<>>, Hostile},
   description : {Plain, Hostile},
   link : {<<>>, Plain, Hostile},
   source : {EmailerSources[1]},
   emails : {<<>>, <<Hostile>>},
   phones : {<<>>, <<Hostile>>}]

\* build_email_html([job]) of the script that runs
BuildCall ==
  /\ probe = NoProbe
  /\ \E j \in BuilderJobs :
       probe' = [op |-> "build_email_html", arg |-> j,
                 res |-> build_email_html(prog, <<j>>)]
  /\ UNCHANGED <<prog, pc, env, dbExists, ledger, clock, runVars, ledger0, built, delivered>>

\* the largest number of pieces a text handed to the extractor is made of
MaxPieces == 3

\* pieces of listing text: a word, the country code, separators, a mobile
\* number, a number too short and one too long, an address
ContactPieces ==
  { <<"c","a","l","l">>, <<"+","9","1">>, <<"-">>, <<" ">>, <<"9","8","7","6","5","4","3","2","1","0">>, <<"9","8","7","6","5">>, <<"7">>, <<"h","r","@","x",".","i","n">> }

\* the texts made of at most n pieces written one after the other
RECURSIVE PiecesUpTo(_)
PiecesUpTo(n) ==
  IF n = 0 THEN {<<>>}
  ELSE LET shorter == PiecesUpTo(n - 1)
       IN  shorter \cup {w \o t : w \in ContactPieces, t \in shorter}

\* extract_contact(text) / extract_contact_info(text)
ExtractContactCall ==
  /\ probe = NoProbe
  /\ \E t \in PiecesUpTo(MaxPieces) :
       probe' = [op |-> "extract_contact", arg |-> t, res |-> extract_contact(t)]
  /\ UNCHANGED <<prog, pc, env, dbExists, ledger, clock, runVars, ledger0, built, delivered>>

NextPure ==
  \/ IsRecentCall
  \/ BuildCall
  \/ ExtractContactCall

SpecPure == Init /\ [][NextPure]_vars

\* ----------------------------------------------------------------- claims

Keys(jobs) == {JobKey(jobs[i]) : i \in 1..Len(jobs)}

\* C1: no dedup key is put into a digest more than once over the runs that
\* share the ledger; a job is kept only when its key was absent from the
\* ledger and the key is recorded with it, so the keys of one digest are
\* distinct; and when a run is done, running the ledger loop again on the same
\* jobs keeps nothing.
C1_AtMostOnce ==
  /\ \A k \in DOMAIN built : built[k] <= 1
  /\ \A i \in 1..Len(new_jobs) :
       /\ JobKey(new_jobs[i]) \in DOMAIN ledger
       /\ JobKey(new_jobs[i]) \notin DOMAIN ledger0
  /\ \A i, j \in 1..Len(new_jobs) : i # j => JobKey(new_jobs[i]) # JobKey(new_jobs[j])
  /\ pc = "done" => LedgerLoop(prog, Candidates, ledger) = <<>>

\* a finished run that met only jobs recorded by earlier runs: empty digest
C1_Witness ==
  /\ pc = "done"
  /\ new_jobs = <<>>
  /\ \E i \in 1..Len(Candidates) :
       /\ Relevant(prog, Candidates[i])
       /\ JobKey(Candidates[i]) \in DOMAIN ledger0

C3_LedgerMonotone ==
  [][ /\ \A k \in DOMAIN ledger : k \in DOMAIN ledger' /\ ledger'[k] = ledger[k]
      /\ probe'.op = "mark_seen" => is_seen(ledger', probe'.arg)
      /\ (probe'.op = "mark_seen" /\ probe' # probe /\ probe'.res) => ledger' = ledger
    ]_vars

\* mark_seen was called on a key recorded at an earlier second
C3_Witness ==
  /\ probe.op = "mark_seen"
  /\ probe.res
  /\ ledger[probe.arg] < clock

\* C4: every job of the digest passed the combined relevance predicate, and
\* the only keys a run adds to the ledger are those of the jobs it kept: a job
\* that fails the predicate leaves the ledger as it was, so its key is still
\* free for a later run.
C4_RejectedUntouched ==
  /\ \A i \in 1..Len(new_jobs) : Relevant(prog, new_jobs[i])
  /\ (DOMAIN ledger \ DOMAIN ledger0) \subseteq Keys(new_jobs)
  /\ pc = "done" =>
       \A k \in RejectedKeys :
         k \in DOMAIN ledger => k \in DOMAIN ledger0 \/ k \in Keys(new_jobs)

\* a finished run that turned a job down and left its key out of the ledger
C4_Witness ==
  /\ pc = "done"
  /\ \E k \in RejectedKeys : k \notin DOMAIN ledger

\* C5: a run that passed the configuration check reaches done; delivery is
\* not invoked before the digest is built and has been invoked exactly once
\* when the run is done; and the payload of a digest without jobs is not
\* empty and holds the statement that no job is new.
C5_RunCompletes ==
  /\ [](pc \in {"init", "fetch", "extract", "enrich", "scrape", "dedupe", "filter",
                "build", "send"} => sendTries = 0)
  /\ [](pc = "done" => sendTries = 1)
  /\ [](pc \in {"send", "done"} /\ new_jobs = <<>> =>
          payload # <<>> /\ Markup("no_new_jobs") \in Range(payload))
  /\ (pc = "init" ~> pc = "done")

\* a run whose every fetch failed is done and has sent the empty digest
C5_Witness ==
  /\ pc = "done" /\ sendTries = 1
  /\ all_jobs = <<>> /\ new_jobs = <<>>
  /\ \A n \in 1..Len(pages) : ~pages[n].ok

SameListing(a, b) ==
  /\ a.title = b.title /\ a.company = b.company /\ a.location = b.location
  /\ a.link = b.link /\ a.source = b.source

\* a job is accounted for: its key is in the ledger, from an earlier run or
\* recorded by this one together with a job of the digest
Recorded(job) ==
  /\ JobKey(job) \in DOMAIN ledger
  /\ JobKey(job) \in DOMAIN ledger0 \/ JobKey(job) \in Keys(new_jobs)

\* the jobs main works on are those the sources with a page contributed
ServedReachMain ==
  LET served == ServedFrom(1)
  IN  /\ Len(all_jobs) = Len(served)
      /\ \A i \in 1..Len(served) : SameListing(all_jobs[i], served[i])

\* C6 as claimed: when a run is done, whatever fetches failed, every relevant
\* job of the sources that gave a page is accounted for.
C6_EveryRelevantJobRecorded ==
  pc = "done" =>
    /\ ServedReachMain
    /\ \A i \in 1..Len(all_jobs) : Relevant(prog, all_jobs[i]) => Recorded(all_jobs[i])

\* C6 as amended: the same for the jobs that survive the in-run duplicate
\* filter of the walk-in script (dedupe_jobs drops a job whose key is empty or
\* equals, after stripping blanks, the key of an earlier job of the run).
C6_PartialFailure ==
  pc = "done" =>
    /\ ServedReachMain
    /\ \A i \in 1..Len(Candidates) :
         Relevant(prog, Candidates[i]) => Recorded(Candidates[i])

\* a finished run in which a fetch failed and a later source's job was kept
C6_Witness ==
  /\ pc = "done"
  /\ \E n \in 1..Len(pages) :
       /\ ~pages[n].ok
       /\ \E i \in 1..Len(new_jobs), m \in (n + 1)..Len(pages) :
            new_jobs[i].source
              = (IF prog = "emailer" THEN EmailerSources[m] ELSE WalkinSources[m])

\* C7: a run whose send failed is done after one call of send_email and the
\* keys of its digest are in the ledger; a key whose digest was not delivered
\* has been put into one digest only, and stays recorded.
C7_FailedDelivery ==
  /\ (pc = "done" /\ ~sendOk) => sendTries = 1 /\ Keys(new_jobs) \subseteq DOMAIN ledger
  /\ \A k \in DOMAIN built :
       Count(delivered, k) = 0 => built[k] = 1 /\ k \in DOMAIN ledger

\* a finished run that met again, and left out, a job of a lost digest
C7_Witness ==
  /\ pc = "done"
  /\ \E i \in 1..Len(Candidates) :
       /\ Relevant(prog, Candidates[i])
       /\ JobKey(Candidates[i]) \in DOMAIN ledger0
       /\ Count(delivered, JobKey(Candidates[i])) = 0
       /\ JobKey(Candidates[i]) \notin Keys(new_jobs)

\* C8: a launch with EMAIL_USER, EMAIL_PASS or RECIPIENT_EMAIL missing ends
\* aborted, and the step that aborts leaves the ledger file and its table as
\* they were, with no fetch issued and send_email not called.
C8_ConfigAbort ==
  [][ /\ ~(env'.user /\ env'.pass /\ env'.rcpt) => pc' = "aborted"
      /\ pc' = "aborted" =>
           /\ dbExists' = dbExists /\ ledger' = ledger
           /\ ~fetched' /\ sendTries' = 0 /\ pages' = <<>>
    ]_vars

\* the first launch, without a recipient: aborted, no ledger file
C8_Witness ==
  pc = "aborted" /\ env.user /\ env.pass /\ ~env.rcpt /\ ~dbExists

\* the characters html.escape replaces, other than the & its entities begin with
MarkupChars == {"<", ">", "\"", "'"}

\* C9 as claimed: no value written into the payload holds a character of
\* markup: every field is escaped.
C9_AllFieldsEscaped ==
  probe.op = "build_email_html" =>
    \A i \in 1..Len(probe.res) :
      probe.res[i].kind = "field" => Range(probe.res[i].out) \cap MarkupChars = {}

\* the text has a recognised marker, or "<N> hour(s) ago" with N <= 24
FreshAsSpecified(text) ==
  LET t == <<" ">> \o Lower(text)
  IN  \/ \E m \in RECENT_MARKERS : Contains(m, t)
      \/ \E n \in { <<"1">>, <<"5">>, <<"1","1">> } :
           Contains(<<" ">> \o n \o <<" ","h","o","u","r","s"," ","a","g","o">>, t)
           \/ Contains(<<" ">> \o n \o <<" ","h","o","u","r"," ","a","g","o">>, t)

\* C10 as claimed: is_recent is true for a text with a recognised marker and
\* for "<N> hour(s) ago" exactly when N <= 24, false otherwise.
C10_FreshnessAsSpecified ==
  probe.op = "is_recent" => (probe.res <=> FreshAsSpecified(probe.arg))

\* C10 as amended: is_recent is true exactly when the lower-cased text holds
\* one of the six markers; there is no numeric rule, so "5 hours ago" and "48
\* hours ago" are not fresh, "Yesterday" is not fresh, "posted today" is fresh.
C10_Freshness ==
  probe.op = "is_recent" =>
    /\ probe.res <=> \E m \in RECENT_MARKERS : Contains(m, Lower(probe.arg))
    /\ probe.arg = <<"5"," ","h","o","u","r","s"," ","a","g","o">> => ~probe.res
    /\ probe.arg = <<"4","8"," ","h","o","u","r","s"," ","a","g","o">> => ~probe.res
    /\ probe.arg = <<"Y","e","s","t","e","r","d","a","y">> => ~probe.res
    /\ probe.arg = <<"p","o","s","t","e","d"," ","t","o","d","a","y">> => probe.res

\* is_recent was called with "5 hours ago" and answered no
C10_Witness ==
  probe.op = "is_recent" /\ probe.arg = <<"5"," ","h","o","u","r","s"," ","a","g","o">> /\ ~probe.res

\* the link of a job, or title + company for a job without a link
LinkOrComposite(j) == IF j.link # <<>> THEN j.link ELSE j.title \o j.company

\* the jobs without a link that passed classification
Linkless(jobs) ==
  {i \in 1..Len(jobs) : jobs[i].link = <<>> /\ Relevant(prog, jobs[i])}

\* the key was recorded, and when this run recorded it the digest holds one
\* job with that key, the first classified job of jobs that has it
FirstReported(jobs, key) ==
  /\ key \in DOMAIN ledger
  /\ key \notin DOMAIN ledger0 =>
       LET same == {n \in 1..Len(jobs) :
                      LinkOrComposite(jobs[n]) = key /\ Relevant(prog, jobs[n])}
           first == CHOOSE n \in same : \A m \in same : n <= m
       IN  /\ Cardinality({n \in 1..Len(new_jobs) :
                             LinkOrComposite(new_jobs[n]) = key}) = 1
           /\ \E n \in 1..Len(new_jobs) : new_jobs[n] = jobs[first]

\* C11 as claimed: when a run is done, every classified job without a link
\* has title + company in the ledger, the empty key included, and of the jobs
\* sharing a key the run recorded the first and only the first is in the digest.
C11_CompositeKeyAsClaimed ==
  pc = "done" =>
    \A i \in Linkless(all_jobs) :
      FirstReported(all_jobs, all_jobs[i].title \o all_jobs[i].company)

\* C11 as amended: the same for the jobs that reach the ledger loop; the
\* emailer records and reports the first job with the empty key and discards
\* the second, the walk-in script drops every job with the empty key before
\* the ledger is asked: it is neither reported nor recorded.
C11_CompositeKey ==
  pc = "done" =>
    /\ \A i \in Linkless(Candidates) :
         FirstReported(Candidates, Candidates[i].title \o Candidates[i].company)
    /\ prog = "walkin" =>
         /\ <<>> \notin DOMAIN ledger
         /\ \A n \in 1..Len(new_jobs) : LinkOrComposite(new_jobs[n]) # <<>>
         /\ \A n \in 1..Len(Candidates) : LinkOrComposite(Candidates[n]) # <<>>

\* an emailer run met two classified jobs without link, title and company,
\* recorded the empty key and put the first of them, alone, into the digest
C11_Witness ==
  /\ pc = "done" /\ prog = "emailer"
  /\ <<>> \in DOMAIN ledger /\ <<>> \notin DOMAIN ledger0
  /\ \E i, k \in Linkless(all_jobs) :
       /\ i < k
       /\ all_jobs[i].title \o all_jobs[i].company = <<>>
       /\ all_jobs[k].title \o all_jobs[k].company = <<>>
       /\ \E n \in 1..Len(new_jobs) : new_jobs[n] = all_jobs[i]
       /\ \A n \in 1..Len(new_jobs) : new_jobs[n] # all_jobs[k]

\* C12: every phone number the contact extractor returns is a string of
\* exactly ten digits, the last ten digits of a candidate found in the text
\* (the country code is cut off), nothing shorter is returned, and for the
\* empty or absent text both collections are empty.
C12_PhonesTenDigits ==
  probe.op = "extract_contact" =>
    /\ \A i \in 1..Len(probe.res.phones) :
         LET p == probe.res.phones[i]
         IN  /\ Len(p) = 10
             /\ \A k \in 1..Len(p) : p[k] \in Digits
             /\ Contains(p, probe.arg)
    /\ probe.arg = <<>> => probe.res.emails = <<>> /\ probe.res.phones = <<>>
    /\ probe.arg = <<"c","a","l","l","+","9","1","-","9","8","7","6","5","4","3","2","1","0">> => probe.res.phones = << <<"9","8","7","6","5","4","3","2","1","0">> >>
    /\ probe.arg = <<"9","8","7","6","5">> => probe.res.phones = <<>>

\* a candidate with the country code was found and cut to its last ten digits
C12_Witness ==
  /\ probe.op = "extract_contact"
  /\ probe.arg = <<"c","a","l","l","+","9","1","9","8","7","6","5","4","3","2","1","0">>
  /\ probe.res.phones = << <<"9","8","7","6","5","4","3","2","1","0">> >>

\* the step of the enrichment loop that fetches the detail page of a job
EnrichesNext ==
  pc = "enrich" /\ idx <= Len(all_jobs) /\ all_jobs[idx].link # <<>>

\* C13 as claimed: a job is enriched only after it passed the relevance
\* predicate, and enrichment leaves its classification as it was.
C13_ClassifiedBeforeEnriched ==
  [][ EnrichesNext =>
        /\ Relevant(prog, all_jobs[idx])
        /\ Relevant(prog, all_jobs'[idx]) ]_vars

\* C13 as amended: the walk-in script classifies a card before it extracts
\* its contacts and fetches no detail page; the emailer enriches every job
\* with a link, relevant or not, before any job is classified or recorded,
\* and its city filter reads the enriched job.
C13_StageOrder ==
  [][ /\ prog = "walkin" =>
           /\ pc # "enrich"
           /\ pc \in {"dedupe", "filter", "build", "send"} => all_jobs' = all_jobs
           /\ pc = "scrape" =>
                \A i \in (Len(all_jobs) + 1)..Len(all_jobs') :
                  /\ WalkinAccepts(all_jobs'[i].source, all_jobs'[i].description)
                  /\ all_jobs'[i].emails = extract_contact(all_jobs'[i].description).emails
      /\ EnrichesNext =>
           all_jobs'[idx] \in { enrich_job_with_details(all_jobs[idx], d) :
                                  d \in {NoDetail} \cup DetailPages }
      /\ pc \in {"fetch", "extract", "enrich"} => new_jobs' = <<>> /\ ledger' = ledger
      /\ (prog = "emailer" /\ pc = "filter" /\ idx <= Len(all_jobs)) =>
           /\ all_jobs' = all_jobs
           /\ new_jobs' # new_jobs <=>
                /\ contains_target_city(EmailerCombined(all_jobs[idx]))
                /\ JobKey(all_jobs[idx]) \notin DOMAIN ledger
    ]_vars

\* the emailer reported a job whose search card names no target city: the
\* city was in the text of its detail page
C13_Witness ==
  /\ prog = "emailer" /\ pc = "done"
  /\ \E i \in 1..Len(all_jobs) :
       /\ ~contains_target_city(EmailerCombined(ServedFrom(1)[i]))
       /\ \E n \in 1..Len(new_jobs) : new_jobs[n] = all_jobs[i]

\* C14 as claimed: in the walk-in pipeline the text of every job of the
\* digest, whatever its source, names a target city, matches a role or
\* walk-in keyword and carries a freshness marker.
C14_DigestJobsPassAllThree ==
  prog = "walkin" =>
    \A n \in 1..Len(new_jobs) :
      /\ text_has_city(new_jobs[n].description)
      /\ text_matches_role_or_walkin(new_jobs[n].description)
      /\ is_recent(new_jobs[n].description)

\* two records of one source that are different postings: they have a key
\* (the collision of records without link, title and company is C11's case)
\* and differ in title or description
DifferentPostings(a, b) ==
  /\ a.source = b.source
  /\ JobKey(a) # <<>> /\ JobKey(b) # <<>>
  /\ a.title # b.title \/ a.description # b.description

\* C15 as claimed: two records of a run that are different postings never
\* have the same dedup key, whatever their sources, so a classified posting
\* with a key is left out of the digest only when that very posting is already
\* in it or its key was recorded by an earlier run.
C15_KeyIdentifiesPosting ==
  /\ \A i, k \in 1..Len(all_jobs) :
       DifferentPostings(all_jobs[i], all_jobs[k])
         => JobKey(all_jobs[i]) # JobKey(all_jobs[k])
  /\ pc = "done" =>
       \A i \in 1..Len(all_jobs) :
         (/\ Relevant(prog, all_jobs[i])
          /\ JobKey(all_jobs[i]) # <<>>
          /\ JobKey(all_jobs[i]) \notin DOMAIN ledger0)
         => \E n \in 1..Len(new_jobs) :
              /\ new_jobs[n].title = all_jobs[i].title
              /\ new_jobs[n].description = all_jobs[i].description

\* no job of the digest has a link that, stripped of surrounding blanks,
\* equals a stripped link of the ledger the run started with
NoBlankVariantReported ==
  \A n \in 1..Len(new_jobs) :
    \A k \in DOMAIN ledger0 : Strip(k) # Strip(JobKey(new_jobs[n]))

\* C16 as claimed: in the walk-in pipeline two jobs are one posting for
\* dedupe_jobs exactly when they have one ledger key, and no job enters the
\* digest whose link differs only by surrounding blanks from a link an
\* earlier run recorded.
C16_DedupeAgreesWithLedger ==
  prog = "walkin" =>
    /\ \A i, k \in 1..Len(all_jobs) :
         (JobKey(all_jobs[i]) # <<>> /\ JobKey(all_jobs[k]) # <<>>) =>
           (Strip(JobKey(all_jobs[i])) = Strip(JobKey(all_jobs[k]))
              <=> JobKey(all_jobs[i]) = JobKey(all_jobs[k]))
    /\ NoBlankVariantReported

=============================================================================
